---- MODULE Spec2Model ----
(***************************************************************************)
(* Model of rail/estimation/algos/gpz_v1.py: the feature encoder           *)
(* _prepare_data, the training stage Inform_GPz_v1.run and the chunked     *)
(* inference stage GPz_v1._process_chunk.                                  *)
(*                                                                         *)
(* Floating point values are fixed point integers, Unit per 1.0; NaN and   *)
(* -inf are two integers outside the range of every finite value used.     *)
(***************************************************************************)
EXTENDS Integers, Sequences, FiniteSets, TLC

\* ------------------------------------------------------------------ bounds
\* rows of a table handed to _prepare_data alone
MaxRows == 2
\* rows (ngal) of a training table
MaxGal == 2
\* states of the ambient random generator
RngPeriod == 3
\* rows of an inference table
MaxInfer == 2

\* ------------------------------------------------------------ float values
Unit == 100000
NaN == 999999999
NegInf == -999999999

Abs(x) == IF x < 0 THEN -x ELSE x
Min2(a, b) == IF a < b THEN a ELSE b

\* np.isnan
IsNaN(x) == x = NaN

\* np.isclose(a, b) with numpy's defaults rtol = 1e-5, atol = 1e-8:
\* |a - b| <= atol + rtol * |b|, false when either side is NaN. With A = a * Unit
\* and B = b * Unit this is |A - B| * Unit <= 100 + |B|; the division keeps the
\* comparison inside 32 bits. Magnitudes are never infinite here.
IsClose(a, b) ==
    /\ ~IsNaN(a)
    /\ ~IsNaN(b)
    /\ Abs(a - b) <= (100 + Abs(b)) \div Unit

\* np.log on the error values of the model (fixed point, rounded)
Ln(x) ==
    CASE x = NaN -> NaN
      [] x = NegInf -> NaN
      [] x /= NaN /\ x /= NegInf /\ x < 0 -> NaN
      [] x = 0 -> NegInf
      [] x = 50000 -> -69315
      [] x = 100000 -> 0
      [] x = 271828 -> 100000
      [] x = 738906 -> 200000

\* ------------------------------------------------------------ configuration
bands == <<"u", "g">>
err_bands == <<"u_err", "g_err">>
nondetect_val == 9900000
redshift_col == "redshift"

\* the rows a table is made of, <<u, g, u_err, g_err>>: a magnitude is a
\* detection, the sentinel, a value within isclose of the sentinel, or NaN
TableRows ==
    {<<mu, mg, eu, eg>> : mu \in {2000000, nondetect_val, nondetect_val + 50, NaN},
                          mg \in {2100000, nondetect_val, NaN},
                          eu \in {271828, 50000},
                          eg \in {271828}}
HeapVals == {0, 77000}
\* the limits a mag_limits mapping gives each band
LimitOf == [b \in {"u", "g"} |-> IF b = "u" THEN 2700000 ELSE 2500000]

\* mag_limits as a Python dict: its entries in insertion order
FullMaglims == {<<<<"u", LimitOf["u"]>>, <<"g", LimitOf["g"]>>>>,
                <<<<"g", LimitOf["g"]>>, <<"u", LimitOf["u"]>>>>}
ShortMaglims == {<<<<"u", LimitOf["u"]>>>>, <<<<"g", LimitOf["g"]>>>>, <<>>}

\* dict.values()
Values(d) == [i \in 1..Len(d) |-> d[i][2]]
\* dict[key]; the key is present
Lookup(d, k) == d[CHOOSE i \in 1..Len(d) : d[i][1] = k][2]
HasKey(d, k) == \E i \in 1..Len(d) : d[i][1] = k

\* photometry tables of n rows
TablesOf(kinds, n) ==
    { [c \in {"u", "g", "u_err", "g_err"} |->
          [r \in 1..n |->
              CASE c = "u" -> rows[r][1] [] c = "g" -> rows[r][2]
                [] c = "u_err" -> rows[r][3] [] c = "g_err" -> rows[r][4]]] :
      rows \in [1..n -> kinds] }

Tables(n) == TablesOf(TableRows, n)

\* ------------------------------------------------------------ _prepare_data
\* np.empty([totrows, 2 * numbands]): whatever the memory held
Empty(totrows, ncols, heap) == [r \in 1..totrows |-> [c \in 1..ncols |-> heap]]

\* the mask of one band: isclose(mag, nondet_val) | isnan(mag)
MaskAny(col, nondet_val) ==
    [r \in 1..Len(col) |-> \E q \in 1..Len(col) : IsClose(col[q], nondet_val) \/ IsNaN(col[q])]
Mask(col, nondet_val) ==
    [r \in 1..Len(col) |-> IsClose(col[r], nondet_val) \/ IsNaN(col[r])]

\* np.log(col) or col, by the flag
ErrColumnBug(col, logflag) == IF logflag THEN col ELSE [r \in 1..Len(col) |-> Ln(col[r])]
ErrColumn(col, logflag) == IF logflag THEN [r \in 1..Len(col) |-> Ln(col[r])] ELSE col

\* one iteration of the loop: band i (1-based), its error band and its limit
BandStep(data, i, numbands, magcol, errcol, lim, nondet_val, logflag) ==
    LET mask == Mask(magcol, nondet_val)
        ecol == ErrColumn(errcol, logflag)
    IN [r \in 1..Len(data) |->
          [c \in 1..Len(data[r]) |->
              IF c = i THEN (IF mask[r] THEN lim ELSE magcol[r])
              ELSE IF c = numbands + i THEN (IF mask[r] THEN Unit ELSE ecol[r])
              ELSE data[r][c]]]

\* for i, (band, eband, lim) in enumerate(zip(bands, err_bands, maglims.values()))
RECURSIVE PrepareLoop(_, _, _, _, _, _, _, _)
PrepareLoop(data, i, data_dict, bnds, ebnds, lims, nondet_val, logflag) ==
    IF i > Min2(Len(bnds), Min2(Len(ebnds), Len(lims))) THEN data
    ELSE PrepareLoop(
            BandStep(data, i, Len(bnds), data_dict[bnds[i]], data_dict[ebnds[i]],
                     lims[i], nondet_val, logflag),
            i + 1, data_dict, bnds, ebnds, lims, nondet_val, logflag)

\* _prepare_data; heap is the content of the memory np.empty returns
PrepareDataShort(data_dict, bnds, ebnds, nondet_val, maglims, logflag, heap) ==
    LET numbands == Len(bnds)
        totrows == Len(data_dict[bnds[1]])
    IN PrepareLoop(Empty(totrows, 2 * numbands, heap), 1, data_dict, bnds, ebnds,
                   SubSeq(Values(maglims), 1, Len(maglims) - 1), nondet_val, logflag)
PrepareData(data_dict, bnds, ebnds, nondet_val, maglims, logflag, heap) ==
    LET numbands == Len(bnds)
        totrows == Len(data_dict[bnds[1]])
    IN PrepareLoop(Empty(totrows, 2 * numbands, heap), 1, data_dict, bnds, ebnds,
                   Values(maglims), nondet_val, logflag)

\* ------------------------------------------------- Inform_GPz_v1.run helpers
\* a training table of n rows: photometry plus the redshift column
TrainTable(n) ==
    [c \in {"u", "g", "u_err", "g_err", "redshift"} |->
        [r \in 1..n |->
            CASE c = "u" -> IF r % 2 = 0 THEN nondetect_val ELSE 2000000
              [] c = "g" -> 2100000
              [] c = "u_err" -> 271828
              [] c = "g_err" -> 50000
              [] c = "redshift" -> r * 10000]]

\* trainfrac as a fraction <<numerator, denominator>> with denominator 2 or 4,
\* so that ngal * trainfrac is exact in binary floating point
Fracs == {<<3, 4>>, <<-1, 2>>, <<3, 2>>}
Seeds == {87}
Methods == {"balanced", "normal"}
Binwidths == {10000, 20000}

\* int(x) of x = num / den, den > 0: truncation toward zero
IntOf(num, den) == IF num >= 0 THEN num \div den ELSE -((-num) \div den)

\* Python's s[:k] and s[k:]
SliceBound(n, k) == IF k < 0 THEN (IF n + k < 0 THEN 0 ELSE n + k) ELSE Min2(k, n)
SliceTo(s, k) == SubSeq(s, 1, SliceBound(Len(s), k))
SliceFromBug(s, k) == SubSeq(s, SliceBound(Len(s), k) + 2, Len(s))
SliceFrom(s, k) == SubSeq(s, SliceBound(Len(s), k) + 1, Len(s))

Range(s) == {s[i] : i \in 1..Len(s)}

\* the ambient generator: one draw of an integer in 0..k, and the next state
Draw(s, k) == s % (k + 1)
Advance(s) == (s + 1) % RngPeriod

\* x[a], x[b] = x[b], x[a]
Swap(x, a, b) == [q \in 1..Len(x) |-> IF q = a THEN x[b] ELSE IF q = b THEN x[a] ELSE x[q]]

\* np.random.permutation(n): Fisher-Yates over arange(n),
\* for i in reversed(range(1, n)): j = draw(0..i); x[i], x[j] = x[j], x[i].
\* Gives <<the permutation, the generator's state afterwards>>.
RECURSIVE Shuffle(_, _, _)
Shuffle(x, i, s) ==
    IF i < 1 THEN <<x, s>>
    ELSE Shuffle(Swap(x, i + 1, Draw(s, i) + 1), i - 1, Advance(s))

Permutation(n, s) == Shuffle([k \in 1..n |-> k - 1], n - 1, s)

\* mask[idx] = True on np.zeros(n, dtype=bool)
MaskOf(n, idx) == [k \in 1..n |-> (k - 1) \in Range(idx)]

\* lines 90-97: the train/validation split
Split(n, frac, s) ==
    LET ntrain == IntOf(n * frac[1], frac[2])
        p == Permutation(n, s)
        randvec == p[1]
    IN [ntrain |-> ntrain,
        train_mask |-> MaskOf(n, SliceTo(randvec, ntrain)),
        val_mask |-> MaskOf(n, SliceFrom(randvec, ntrain)),
        rng |-> p[2]]

\* ------------------------------------------------ GPz_v1._process_chunk helpers
zmin == 0
zmax == 300000
nzbins == 7

\* np.linspace(zmin, zmax, nzbins)
Linspace(lo, hi, n) == [i \in 1..n |-> lo + ((i - 1) * (hi - lo)) \div (n - 1)]

\* trained models: opaque to the stage, read by predict only
Models == {[w |-> 3, b |-> 7], [w |-> 5, b |-> 110]}

\* GP.predict on one row of features: predictive mean and total variance
PredictRow(m, x) ==
    LET nb == Len(x) \div 2
        bad == \E c \in 1..Len(x) : x[c] = NaN \/ x[c] = NegInf
        k == IF bad THEN 1 ELSE ((x[2] \div 1000 + x[nb + 2] \div 1000 + m.w) % 3) + 1
    IN [mu |-> IF bad THEN NaN
               ELSE (((x[1] \div 1000) * m.w + x[2] \div 1000 + x[nb + 1] \div 1000
                      + x[nb + 2] \div 1000 + m.b) % 300) * 1000,
        totalV |-> k * k * 1000]

\* GP.predict(test_array): row by row, the model only read
Predict(m, X) == [r \in 1..Len(X) |-> PredictRow(m, X[r])]

\* qp.Ensemble(qp.stats.norm, data=dict(loc=..., scale=...)).mode(grid) for one row:
\* the grid point of largest normal density, the first one on a tie
\* (np.argmax); a NaN location makes every density NaN and argmax 0.
ModeOf(loc, scale, grid) ==
    IF IsNaN(loc) THEN grid[1]
    ELSE grid[CHOOSE i \in 1..Len(grid) :
                 /\ \A j \in 1..Len(grid) : Abs(grid[i] - loc) <= Abs(grid[j] - loc)
                 /\ \A j \in 1..(i - 1) : Abs(grid[j] - loc) > Abs(grid[i] - loc)]

\* the rows [start, end) of a table, as the chunk iterator hands them over
ChunkOf(data_dict, start, end) ==
    [c \in DOMAIN data_dict |-> SubSeq(data_dict[c], start + 1, end)]

\* lines 141-149: what _process_chunk hands to _do_chunk_output, one record a row
ChunkOutput(m, data, maglims, logflag, heap) ==
    LET test_array == PrepareData(data, bands, err_bands, nondetect_val, maglims,
                                  logflag, heap)
        pred == Predict(m, test_array)
        zgrid == Linspace(zmin, zmax, nzbins)
    IN [r \in 1..Len(pred) |->
          [loc |-> pred[r].mu,
           scale |-> pred[r].totalV,
           zmode |-> ModeOf(pred[r].mu, pred[r].totalV, zgrid)]]

\* the rows an inference table is made of: <<u, g, u_err, g_err>>
InferRows == {<<2000000, 2100000, 271828, 50000>>,
              <<nondetect_val, 2200000, 50000, 271828>>,
              <<2300000, NaN, 271828, 271828>>}

InferTables(n) == TablesOf(InferRows, n)

\* ------------------------------------------------------------------- state
VARIABLES
    tbl,          \* data_dict: the photometry table of the call
    mag_limits,   \* config.mag_limits
    log_errors,   \* config.log_errors
    enc,          \* what _prepare_data returned: <<>> before the call, <<data>> after
    rng,          \* state of numpy's global random generator
    trainfrac,    \* config.trainfrac
    seed,         \* config.seed
    csl_method,   \* config.csl_method
    csl_binwidth, \* config.csl_binwidth
    runs,         \* the latest two invocations of Inform_GPz_v1.run, oldest first
    model,        \* self.model of the estimator: the trained model it opened
    opened,       \* the trained model as it was when the estimator opened it
    out           \* per inference run, per row: <<>> or <<what the chunk wrote>>

vars == <<tbl, mag_limits, log_errors, enc, rng, trainfrac, seed, csl_method,
          csl_binwidth, runs, model, opened, out>>

estVars == <<model, opened, out>>

NoEstimate ==
    /\ model = [w |-> 3, b |-> 7]
    /\ opened = model
    /\ out = <<>>

informVars == <<rng, trainfrac, seed, csl_method, csl_binwidth, runs>>

NoInform ==
    /\ rng = 0
    /\ trainfrac = <<3, 4>>
    /\ seed = 87
    /\ csl_method = "normal"
    /\ csl_binwidth = 10000
    /\ runs = <<>>

\* ------------------------------------------------------ _prepare_data alone
InitEnc ==
    /\ \E n \in 0..MaxRows : tbl \in Tables(n)
    /\ mag_limits \in FullMaglims
    /\ log_errors \in BOOLEAN
    /\ enc = <<>>
    /\ NoInform
    /\ NoEstimate

InitEncShort ==
    /\ \E n \in 0..MaxRows : tbl \in Tables(n)
    /\ mag_limits \in ShortMaglims
    /\ log_errors \in BOOLEAN
    /\ enc = <<>>
    /\ NoInform
    /\ NoEstimate

Prepare ==
    /\ enc = <<>>
    /\ \E heap \in HeapVals :
          enc' = <<PrepareData(tbl, bands, err_bands, nondetect_val, mag_limits,
                               log_errors, heap)>>
    /\ UNCHANGED <<tbl, mag_limits, log_errors>>
    /\ UNCHANGED informVars
    /\ UNCHANGED estVars

NextEnc == Prepare

SpecEnc == InitEnc /\ [][NextEnc]_vars

SpecEncShort == InitEncShort /\ [][NextEnc]_vars

\* -------------------------------------------------------- Inform_GPz_v1.run
InitInform ==
    /\ \E n \in 0..MaxGal : tbl = TrainTable(n)
    /\ mag_limits = <<<<"u", LimitOf["u"]>>, <<"g", LimitOf["g"]>>>>
    /\ log_errors = TRUE
    /\ enc = <<>>
    /\ rng \in 0..(RngPeriod - 1)
    /\ trainfrac \in Fracs
    /\ seed \in Seeds
    /\ csl_method \in Methods
    /\ csl_binwidth \in Binwidths
    /\ runs = <<>>
    /\ NoEstimate

\* Inform_GPz_v1.run, whole. getOmega, GP(...) and model.train are recorded as
\* the calls run makes; the external train either returns or raises, and only
\* when it returns are self.model and add_data reached.
Run ==
    \E heap \in HeapVals, raises \in BOOLEAN :
      LET input_array == PrepareData(tbl, bands, err_bands, nondetect_val,
                                     mag_limits, log_errors, heap)
          sz == tbl[redshift_col]
          ngal == Len(input_array)
          sp == Split(ngal, trainfrac, rng)
          omega_call == [sz |-> sz, kwargs |-> [method |-> csl_method]]
          gp == [seed |-> seed]
          train_call == [X |-> input_array, Y |-> sz, omega |-> omega_call,
                         training |-> sp.train_mask, validation |-> sp.val_mask]
          rec == [seed |-> seed, ngal |-> ngal, trainfrac |-> trainfrac,
                  csl_method |-> csl_method, csl_binwidth |-> csl_binwidth,
                  ntrain |-> sp.ntrain,
                  train_mask |-> sp.train_mask, val_mask |-> sp.val_mask,
                  omega_calls |-> <<omega_call>>,
                  gp |-> gp,
                  train_calls |-> <<train_call>>,
                  raised |-> raises,
                  model_stored |-> ~raises]
      IN /\ runs' = IF Len(runs) < 2 THEN Append(runs, rec) ELSE <<runs[2], rec>>
         /\ rng' = sp.rng
         /\ UNCHANGED <<tbl, mag_limits, log_errors, enc, trainfrac, seed,
                        csl_method, csl_binwidth>>
         /\ UNCHANGED estVars

\* anything else in the process drawing a number from the global generator
AmbientDraw ==
    /\ rng' = Advance(rng)
    /\ UNCHANGED <<tbl, mag_limits, log_errors, enc, trainfrac, seed,
                   csl_method, csl_binwidth, runs>>
    /\ UNCHANGED estVars

\* a later stage configured with another csl_binwidth
SetBinwidth ==
    /\ \E b \in Binwidths : b /= csl_binwidth /\ csl_binwidth' = b
    /\ UNCHANGED <<tbl, mag_limits, log_errors, enc, rng, trainfrac, seed,
                   csl_method, runs>>
    /\ UNCHANGED estVars

NextInform == Run \/ AmbientDraw \/ SetBinwidth

SpecInform == InitInform /\ [][NextInform]_vars

\* ---------------------------------------------------- GPz_v1._process_chunk
NRows == Len(tbl[bands[1]])

InitEstimate ==
    /\ \E n \in 0..MaxInfer : tbl \in InferTables(n)
    /\ mag_limits \in FullMaglims
    /\ log_errors \in BOOLEAN
    /\ enc = <<>>
    /\ NoInform
    /\ model \in Models
    /\ opened = model
    /\ out = <<[r \in 1..NRows |-> <<>>], [r \in 1..NRows |-> <<>>]>>

Complete(k) == \A r \in 1..NRows : out[k][r] /= <<>>

\* _process_chunk(start, end, data, first) of inference run k (1: the run,
\* 2: the rerun) on rows [start, end) not yet estimated; _do_chunk_output
\* stores the chunk's ensemble and zmode at rows start..end-1. first is only
\* handed on to _do_chunk_output and decides nothing here.
ProcessChunk(k, start, end) ==
    /\ 0 <= start /\ start < end /\ end <= NRows
    /\ \A r \in (start + 1)..end : out[k][r] = <<>>
    /\ k = 2 => Complete(1)
    /\ \E heap \in HeapVals :
         LET res == ChunkOutput(model, ChunkOf(tbl, start, end), mag_limits,
                                log_errors, heap)
         IN out' = [out EXCEPT ![k] =
                      [r \in 1..NRows |->
                          IF start < r /\ r <= end THEN <<res[r - start]>>
                          ELSE out[k][r]]]
    /\ UNCHANGED <<model, opened>>
    /\ UNCHANGED <<tbl, mag_limits, log_errors, enc>>
    /\ UNCHANGED informVars

NextEstimate ==
    \E k \in 1..2, start \in 0..MaxInfer, end \in 0..MaxInfer : ProcessChunk(k, start, end)

SpecEstimate == InitEstimate /\ [][NextEstimate]_vars

\* ------------------------------------------------------------------ claims
Written(k) == {r \in 1..NRows : out[k][r] /= <<>>}
Trues(m) == {i \in 1..Len(m) : m[i]}
RunIds == 1..Len(runs)

\* C1: in every invocation of run, the two masks have one entry per row and
\* every row is true in exactly one of train_mask and val_mask.
C1_MasksPartition ==
    \A i \in RunIds :
        /\ Len(runs[i].train_mask) = runs[i].ngal
        /\ Len(runs[i].val_mask) = runs[i].ngal
        /\ \A k \in 1..runs[i].ngal : runs[i].train_mask[k] /= runs[i].val_mask[k]

C1_Witness ==
    \E i \in RunIds :
        /\ runs[i].ngal >= 2
        /\ Trues(runs[i].train_mask) /= {}
        /\ Trues(runs[i].val_mask) /= {}
        /\ runs[i].trainfrac[1] < 0

\* C2: two invocations of run with the same seed, row count and training
\* fraction produce the same train_mask and the same val_mask.
C2_SplitDeterministic ==
    \A i \in RunIds, j \in RunIds :
        (/\ runs[i].seed = runs[j].seed
         /\ runs[i].ngal = runs[j].ngal
         /\ runs[i].trainfrac = runs[j].trainfrac)
        => /\ runs[i].train_mask = runs[j].train_mask
           /\ runs[i].val_mask = runs[j].val_mask

\* C3: once _prepare_data has returned, every band whose magnitude in a row
\* equals the sentinel or is NaN holds the limit mag_limits gives that band's
\* identifier and 1.0 as its error, and an unmasked magnitude is copied.
C3_NondetectSubstitution ==
    enc /= <<>> =>
        \A i \in 1..Len(bands), r \in 1..NRows :
            LET mag == tbl[bands[i]][r]
            IN /\ (mag = nondetect_val \/ IsNaN(mag)) =>
                     /\ enc[1][r][i] = Lookup(mag_limits, bands[i])
                     /\ enc[1][r][Len(bands) + i] = Unit
               /\ ~Mask(tbl[bands[i]], nondetect_val)[r] => enc[1][r][i] = mag

\* C4: once _prepare_data has returned, every band of a row not masked for it
\* holds the raw magnitude, and as its error ln(raw error) when log_errors is
\* set and the raw error otherwise.
C4_LogTransform ==
    enc /= <<>> =>
        \A i \in 1..Len(bands), r \in 1..NRows :
            ~(IsClose(tbl[bands[i]][r], nondetect_val) \/ IsNaN(tbl[bands[i]][r])) =>
                /\ enc[1][r][i] = tbl[bands[i]][r]
                /\ enc[1][r][Len(bands) + i] =
                      IF log_errors THEN Ln(tbl[err_bands[i]][r])
                      ELSE tbl[err_bands[i]][r]

C4_Witness ==
    /\ enc /= <<>>
    /\ log_errors
    /\ \E r \in 1..NRows :
          /\ tbl["u"][r] = 2000000
          /\ tbl["u_err"][r] = 50000
          /\ enc[1][r][3] = -69315
          /\ IsNaN(tbl["g"][r])

\* what one chunk holding the whole table gives for each row
WholeTable(heap) == ChunkOutput(model, ChunkOf(tbl, 0, NRows), mag_limits, log_errors, heap)

\* C5: whatever the chunks and their order, every row estimated so far has
\* the location, scale and zmode that the whole table as one chunk gives it.
C5_ChunkInvariance ==
    \A heap \in HeapVals :
        LET whole == WholeTable(heap)
        IN \A k \in 1..Len(out) : \A r \in Written(k) : out[k][r][1] = whole[r]

C5_Witness ==
    /\ out /= <<>>
    /\ NRows >= 2
    /\ Written(1) = {2}
    /\ \E r \in 1..NRows : tbl["u"][r] = nondetect_val
    /\ \E r \in 1..NRows : tbl["u"][r] /= nondetect_val

\* C6: a row estimated in the run and in the rerun has the same zmode in
\* both, and the trained model is the one that was opened.
C6_ModeConsistency ==
    /\ model = opened
    /\ out /= <<>> =>
          \A r \in Written(1) \cap Written(2) : out[1][r][1].zmode = out[2][r][1].zmode

C6_Witness ==
    /\ out /= <<>>
    /\ NRows >= 2
    /\ Complete(1)
    /\ Complete(2)
    /\ \E r \in 1..NRows : out[2][r][1].zmode /= out[2][1][1].zmode

\* C7: an invocation of run whose split leaves the training or the validation
\* set empty raises, never calls train and stores no model.
C7_DegenerateRejected ==
    \A i \in RunIds :
        LET k == (runs[i].ngal * runs[i].trainfrac[1]) \div runs[i].trainfrac[2]
        IN (k = 0 \/ k = runs[i].ngal) =>
              /\ runs[i].train_calls = <<>>
              /\ runs[i].raised
              /\ ~runs[i].model_stored

\* C8: _prepare_data never returns a matrix when mag_limits lacks an entry
\* for one of the bands.
C8_ShortMappingRejected ==
    (\E i \in 1..Len(bands) : ~HasKey(mag_limits, bands[i])) => enc = <<>>

\* the model's prediction for row r of the table
PredictionOf(r) ==
    PredictRow(model, PrepareData(ChunkOf(tbl, r - 1, r), bands, err_bands,
                                   nondetect_val, mag_limits, log_errors, 0)[1])

\* C9: every estimated row's posterior has the predicted mean as location and
\* the square root of the predicted total variance as scale.
C9_ScaleIsStdDev ==
    \A k \in 1..Len(out) : \A r \in Written(k) :
        /\ out[k][r][1].loc = PredictionOf(r).mu
        /\ out[k][r][1].scale * out[k][r][1].scale = PredictionOf(r).totalV * Unit

\* C10: every invocation of run calls the weighting routine once, with the
\* redshifts and the method, and with csl_binwidth when the method is
\* 'balanced'; two balanced runs with different bin widths call it differently.
C10_WeightingCall ==
    /\ \A i \in RunIds :
          /\ Len(runs[i].omega_calls) = 1
          /\ runs[i].omega_calls[1].sz = tbl[redshift_col]
          /\ runs[i].omega_calls[1].kwargs.method = runs[i].csl_method
          /\ runs[i].csl_method = "balanced" =>
                /\ "bin_width" \in DOMAIN runs[i].omega_calls[1].kwargs
                /\ runs[i].omega_calls[1].kwargs.bin_width = runs[i].csl_binwidth
    /\ \A i \in RunIds, j \in RunIds :
          (/\ runs[i].csl_method = "balanced"
           /\ runs[j].csl_method = "balanced"
           /\ runs[i].csl_binwidth /= runs[j].csl_binwidth)
          => runs[i].omega_calls /= runs[j].omega_calls

====
